---- MODULE Spec2Model ----
(***************************************************************************)
(* Model of the GTI tool adapters (gti_mcp/tools/files.py, urls.py,        *)
(* intelligence.py), the per-request client scope (gti_mcp/server.py) and  *)
(* the graph access layer they call (gti_mcp/utils.py: fetch_object,       *)
(* fetch_object_relationships, consume_vt_iterator, sanitize_response,     *)
(* url_id).                                                                *)
(*                                                                         *)
(* A tool invocation is a coroutine: it runs from one network suspension   *)
(* point to the next.  Every action below is one such run of one           *)
(* invocation, or one answer of the upstream graph API.                    *)
(***************************************************************************)
EXTENDS Integers, Sequences, FiniteSets, TLC

(***************************************************************************)
(* Bounds of the model.                                                    *)
(***************************************************************************)
\* largest limit argument an invocation is given
MaxLimit == 5
\* number of pages the upstream holds for one endpoint, at most
MaxPages == 3
\* number of items on one page, at most
MaxPageLen == 4
\* nesting depth of the decoded bodies the upstream answers with
MaxDepth == 2
\* number of Sessions created in one behaviour
MaxSessions == 2
\* number of polls wait_for_analysis_completion makes, at most
MaxPolls == 2

\* the invocations that can be in flight
Slots == {1, 2}

(***************************************************************************)
(* Values.  A decoded JSON-like payload is a tagged tuple:                 *)
(*   <<"scalar", n>>          a number                                     *)
(*   <<"str", tokens>>        a string, as the sequence of its pieces      *)
(*   <<"seq", <<p1, ...>>>>   a sequence of payloads                       *)
(*   <<"map", <<<<k1, p1>>, ...>>>>  a map, its entries in insertion order *)
(*   <<"object", entries>>    a vt.Object, which is no JSON value          *)
(***************************************************************************)
Scalar(n) == <<"scalar", n>>
Str(tokens) == <<"str", tokens>>
List(items) == <<"seq", items>>
Dict(entries) == <<"map", entries>>
Object(entries) == <<"object", entries>>

Range(s) == {s[k] : k \in 1..Len(s)}

\* dict.get(key, default): the value of the first entry under key
DictGet(d, key, default) ==
    LET hits == SelectSeq(d[2], LAMBDA e : e[1] = key)
    IN  IF Len(hits) = 0 THEN default ELSE hits[1][2]

\* vt.Object.to_dict(): the object's data as a plain map
ToDict(o) == Dict(o[2])

(***************************************************************************)
(* Response Sanitizer (utils.sanitize_response, spec section 4.6): walks   *)
(* maps and sequences recursively and removes the entries whose field name *)
(* is disallowed; scalars and unknown shapes pass through unchanged.  The   *)
(* spec allows removing or masking a disallowed field; removal is modelled.*)
(***************************************************************************)
DisallowedFields == {"last_analysis_results"}

RECURSIVE Sanitize(_)
Sanitize(p) ==
    CASE p[1] = "map" ->
           LET kept == SelectSeq(p[2], LAMBDA e : e[1] \notin DisallowedFields)
           IN  Dict([k \in 1..Len(kept) |-> <<kept[k][1], Sanitize(kept[k][2])>>])
      [] p[1] = "seq" ->
           List([k \in 1..Len(p[2]) |-> Sanitize(p[2][k])])
      [] OTHER -> p

(***************************************************************************)
(* Identifier Encoder (utils.url_id, spec section 4.4): a deterministic    *)
(* URL-safe encoding of the raw URL; here the unpadded base64 of each of   *)
(* the model's URLs.                                                       *)
(***************************************************************************)
Urls == {"u1", "u2"}
UrlId(url) == IF url = "u1" THEN "dTE" ELSE "dTI"

(***************************************************************************)
(* Relationship allow-lists, as the adapters define them.                  *)
(***************************************************************************)
FILE_RELATIONSHIPS ==
    << "bundled_files", "carbonblack_children", "carbonblack_parents",
       "cloned_files", "collections", "comments", "compressed_parents",
       "contacted_domains", "contacted_ips", "contacted_urls",
       "dropped_files", "email_parents", "embedded_domains", "embedded_ips",
       "embedded_urls", "execution_parents", "graphs",
       "historical_ssl_certificates", "historical_whois", "itw_domains",
       "itw_ips", "itw_urls", "memory_pattern_domains", "memory_pattern_ips",
       "memory_pattern_urls", "overlay_parents", "pcap_parents",
       "pe_resource_children", "pe_resource_parents", "related_comments",
       "related_reports", "related_threat_actors", "reports",
       "similar_files", "submissions", "screenshots", "software_toolkits",
       "target_domains", "target_ips", "target_urls", "urls", "user_votes",
       "votes", "vulnerabilities" >>

FILE_KEY_RELATIONSHIPS ==
    << "contacted_domains", "contacted_ips", "contacted_urls" >>

URL_RELATIONSHIPS ==
    << "analyses", "associations", "campaigns", "collections", "comments",
       "communicating_files", "contacted_domains", "contacted_ips",
       "downloaded_files", "embedded_js_files", "graphs",
       "http_response_contents", "last_serving_ip_address",
       "malware_families", "memory_pattern_parents", "network_location",
       "redirecting_urls", "referrer_files", "related_comments",
       "related_reports", "related_threat_actors", "reports", "submissions",
       "screenshots", "software_toolkits", "user_votes", "votes" >>

URL_KEY_RELATIONSHIPS ==
    << "last_serving_ip_address", "network_location" >>

HUNTING_RULESET_RELATIONSHIPS ==
    << "hunting_notification_files" >>

BEHAVIOUR_REPORT_RELATIONSHIPS ==
    << "contacted_domains", "contacted_ips", "contacted_urls",
       "dropped_files", "embedded_domains", "embedded_ips", "embedded_urls",
       "associations" >>

\* sep.join(list), as the sequence of the pieces of the resulting string
Join(list, sep) ==
    IF Len(list) = 0 THEN << >>
    ELSE [k \in 1..(2 * Len(list) - 1) |->
             IF k % 2 = 1 THEN list[(k + 1) \div 2] ELSE sep]

(***************************************************************************)
(* The tools.                                                              *)
(***************************************************************************)
ObjectTools ==
    {"get_file_report", "get_url_report", "get_hunting_ruleset",
     "get_file_behavior_report"}
RelationshipTools ==
    {"get_entities_related_to_a_file", "get_entities_related_to_a_url",
     "get_entities_related_to_a_hunting_ruleset"}
SearchTools == {"search", "get_whois"}
SummaryTools == {"get_file_behavior_summary"}
AnalyseTools == {"analyse_file"}
\* the allow-list each relationship adapter tests relationship_name against
AllowList(tool) ==
    CASE tool = "get_entities_related_to_a_file" -> FILE_RELATIONSHIPS
      [] tool = "get_entities_related_to_a_url" -> URL_RELATIONSHIPS
      [] tool = "get_entities_related_to_a_hunting_ruleset" ->
           HUNTING_RULESET_RELATIONSHIPS

\* lower case of the relationship names the model uses
Lower(name) == IF name = "Votes" THEN "votes" ELSE name

\* mutant: the membership test ignores case
IsAllowedIgnoringCase(name, allowed) ==
    \E k \in 1..Len(allowed) : Lower(allowed[k]) = Lower(name)

\* `relationship_name in <allow-list>`: list membership by string equality
IsAllowed(name, allowed) == \E k \in 1..Len(allowed) : allowed[k] = name

\* the error value an adapter returns for a name outside its allow-list
UnknownRelationship(name, allowed) ==
    Dict(<< <<"error",
              Str(<<"Relationship ", name, " does not exist. ",
                    "Available relationships are: ">> \o Join(allowed, ","))>> >>)

(***************************************************************************)
(* Arguments the model invokes the tools with.                             *)
(***************************************************************************)
\* hashes, ruleset ids, behaviour ids, queries, file paths
Ids == {"h1", "h2"}
\* relationship names: one in the file and URL allow-lists, the ruleset one,
\* a case variant and a prefix of the listed name "votes", and unknown ones
RelNames ==
    {"contacted_domains", "hunting_notification_files", "Votes", "vote",
     "behaviours", "not_a_real_relationship"}
Limits == 0..MaxLimit

\* the graph API's identifier of the entity a call is about
EntityId(c) ==
    IF c.tool \in {"get_url_report", "get_entities_related_to_a_url"}
    THEN UrlId(c.arg) ELSE c.arg

\* the collection each adapter addresses
Collection(tool) ==
    CASE tool \in {"get_file_report", "get_entities_related_to_a_file",
                   "get_file_behavior_summary"} -> "files"
      [] tool \in {"get_url_report", "get_entities_related_to_a_url"} -> "urls"
      [] tool \in {"get_hunting_ruleset",
                   "get_entities_related_to_a_hunting_ruleset"} ->
           "intelligence/hunting_rulesets"
      [] tool = "get_file_behavior_report" -> "file_behaviours"
      [] tool = "search" -> "intelligence/search"
      [] tool = "get_whois" -> "intelligence/whois_search"
      [] tool = "analyse_file" -> "files"

\* the relationships each object adapter asks fetch_object to embed
EmbeddedRelationships(tool) ==
    CASE tool = "get_file_report" -> FILE_KEY_RELATIONSHIPS
      [] tool = "get_url_report" -> URL_KEY_RELATIONSHIPS
      [] tool = "get_hunting_ruleset" -> << >>
      [] tool = "get_file_behavior_report" -> BEHAVIOUR_REPORT_RELATIONSHIPS

\* the query parameters each object adapter passes through
ObjectParams(tool) ==
    IF tool \in {"get_file_report", "get_url_report"}
    THEN << <<"exclude_attributes", "last_analysis_results">> >>
    ELSE << >>

(***************************************************************************)
(* The upstream graph API (spec sections 3 and 6).  The edge list behind   *)
(* an endpoint is item 1, item 2, ...; a page is the next few of them and  *)
(* an optional continuation cursor.                                        *)
(***************************************************************************)
Statuses == {200, 404, 500}
\* 0: the transport failed and there is no HTTP status
FailureStatuses == {0, 404, 500}
ErrorBody == Dict(<< <<"error", Str(<<"upstream">>)>> >>)

Descriptor(n) == Dict(<< <<"type", Str(<<"entity">>)>>, <<"id", Scalar(n)>> >>)

Attributes(n) ==
    IF n % 2 = 1
    THEN Dict(<< <<"last_analysis_results", Dict(<< <<"engine", Scalar(n)>> >>)>>,
                 <<"reputation", Scalar(n)>> >>)
    ELSE Dict(<< <<"reputation", Scalar(n)>> >>)

FullEntries(n) ==
    << <<"type", Str(<<"entity">>)>>, <<"id", Scalar(n)>>,
       <<"attributes", Attributes(n)>> >>

\* item n of an endpoint's edge list, as the Session hands it to the layer
RawItem(tool, desc, n) ==
    IF tool \in SearchTools THEN Object(FullEntries(n))
    ELSE IF desc THEN Descriptor(n) ELSE Dict(FullEntries(n))

\* items from+1 .. from+n, in the server's order
RawPage(tool, desc, from, n) ==
    [k \in 1..n |-> RawItem(tool, desc, from + k)]

\* decoded bodies of nesting depth at most d: scalars, empty and one-element
\* sequences, and maps over an allowed and a disallowed field name, in
\* either insertion order
RECURSIVE Payloads(_)
Payloads(d) ==
    IF d = 0 THEN {Scalar(1)}
    ELSE LET sub == Payloads(d - 1)
         IN  sub
             \cup {List(<< >>), Dict(<< >>)}
             \cup {List(<<x>>) : x \in sub}
             \cup {Dict(<< <<"id", x>> >>) : x \in sub}
             \cup {Dict(<< <<"last_analysis_results", x>> >>) : x \in sub}
             \cup {Dict(<< <<"id", x>>, <<"last_analysis_results", Scalar(1)>> >>) :
                      x \in sub}
             \cup {Dict(<< <<"last_analysis_results", x>>, <<"id", Scalar(1)>> >>) :
                      x \in sub}

Bodies == Payloads(MaxDepth)

(***************************************************************************)
(* State.                                                                  *)
(***************************************************************************)
VARIABLES
    apiKey,     \* whether VT_APIKEY is set in the process environment
    pc,         \* pc[i]: where invocation i stands
    call,       \* call[i]: the tool and the arguments of invocation i
    client,     \* client[i]: the Session invocation i holds, 0 for none
    net,        \* net[i]: the request invocation i is suspended on
    trips,      \* trips[i]: network round trips invocation i has started
    walk,       \* walk[i]: the page walk of invocation i
    res,        \* res[i]: what the access layer handed to the adapter
    outcome,    \* outcome[i]: what the invocation handed to its caller
    reply,      \* reply[i]: the last answer of the upstream to invocation i
    sessions    \* every Session created so far, in creation order

vars ==
    <<apiKey, pc, call, client, net, trips, walk, res, outcome, reply, sessions>>

NoCall == [tool |-> "", arg |-> "", rel |-> "", desc |-> FALSE, limit |-> 0]
NoRequest == [kind |-> "none", path |-> << >>, params |-> << >>, cursor |-> 0]
NoWalk == [state |-> "HasCursor", cursor |-> 0, acc |-> << >>, fetched |-> 0]
None == <<"none">>

Init ==
    /\ apiKey \in BOOLEAN
    /\ pc = [i \in Slots |-> "idle"]
    /\ call = [i \in Slots |-> NoCall]
    /\ client = [i \in Slots |-> 0]
    /\ net = [i \in Slots |-> NoRequest]
    /\ trips = [i \in Slots |-> 0]
    /\ walk = [i \in Slots |-> NoWalk]
    /\ res = [i \in Slots |-> None]
    /\ outcome = [i \in Slots |-> None]
    /\ reply = [i \in Slots |-> None]
    /\ sessions = << >>

WalkTools == RelationshipTools \cup SearchTools

(***************************************************************************)
(* The calling agent invokes a tool.                                       *)
(***************************************************************************)
Calls ==
    [tool : ObjectTools \ {"get_url_report"}, arg : Ids, rel : {""},
     desc : {FALSE}, limit : {0}]
    \cup [tool : {"get_url_report"}, arg : Urls, rel : {""},
          desc : {FALSE}, limit : {0}]
    \cup [tool : {"get_entities_related_to_a_file"}, arg : {"h1"}, rel : RelNames,
          desc : BOOLEAN, limit : Limits]
    \cup [tool : {"get_entities_related_to_a_url"}, arg : {"u1"}, rel : RelNames,
          desc : BOOLEAN, limit : Limits]
    \* this adapter has no descriptors_only argument: the layer's default applies
    \cup [tool : {"get_entities_related_to_a_hunting_ruleset"}, arg : {"h1"},
          rel : RelNames, desc : {TRUE}, limit : Limits]
    \cup [tool : SearchTools, arg : {"h1"}, rel : {""}, desc : {FALSE},
          limit : Limits]
    \cup [tool : SummaryTools \cup AnalyseTools, arg : {"h1"}, rel : {""},
          desc : {FALSE}, limit : {0}]

Invoke(i) ==
    /\ pc[i] = "idle"
    /\ \E c \in Calls : call' = [call EXCEPT ![i] = c]
    /\ pc' = [pc EXCEPT ![i] = "called"]
    /\ UNCHANGED <<apiKey, client, net, trips, walk, res, outcome, reply, sessions>>

(***************************************************************************)
(* Relationship validation, the first statement of the three relationship  *)
(* adapters: a name outside the allow-list is answered with an error       *)
(* value, before any Session exists.                                       *)
(***************************************************************************)
\* mutant: the adapter does not test the relationship name
SkipsValidation(c) == TRUE

PassesValidation(c) ==
    c.tool \in RelationshipTools => IsAllowed(c.rel, AllowList(c.tool))

Reject(i) ==
    /\ pc[i] = "called"
    /\ ~PassesValidation(call[i])
    /\ outcome' = [outcome EXCEPT ![i] =
           <<"return", UnknownRelationship(call[i].rel, AllowList(call[i].tool))>>]
    /\ pc' = [pc EXCEPT ![i] = "returned"]
    /\ UNCHANGED <<apiKey, call, client, net, trips, walk, res, reply, sessions>>

(***************************************************************************)
(* vt_client(ctx): `async with` creates the Session of this invocation    *)
(* (the factory raises ValueError without an API key) and closes it when   *)
(* the block is left, whichever way it is left.                            *)
(***************************************************************************)
\* late: a request was made through it after it was closed;
\* foreign: a request was made through it by another invocation
NewSession(i) ==
    [owner |-> i, open |-> TRUE, closes |-> 0, late |-> FALSE, foreign |-> FALSE]

\* mutant: one client is made for the whole server and every invocation
\* uses it
AcquireShared(i) ==
    /\ pc[i] = "called"
    /\ PassesValidation(call[i])
    /\ apiKey
    /\ IF sessions = << >>
       THEN sessions' = Append(sessions, NewSession(i))
       ELSE sessions' = sessions
    /\ client' = [client EXCEPT ![i] = 1]
    /\ pc' = [pc EXCEPT ![i] = "scope"]
    /\ UNCHANGED <<apiKey, call, net, trips, walk, res, outcome, reply>>

\* async with vt_client(ctx) as client: the factory makes a new client for
\* this invocation
Acquire(i) ==
    /\ pc[i] = "called"
    /\ PassesValidation(call[i])
    /\ apiKey
    /\ Len(sessions) < MaxSessions
    /\ sessions' = Append(sessions, NewSession(i))
    /\ client' = [client EXCEPT ![i] = Len(sessions) + 1]
    /\ pc' = [pc EXCEPT ![i] = "scope"]
    /\ UNCHANGED <<apiKey, call, net, trips, walk, res, outcome, reply>>

AcquireFails(i) ==
    /\ pc[i] = "called"
    /\ PassesValidation(call[i])
    /\ ~apiKey
    /\ outcome' = [outcome EXCEPT ![i] = <<"raise", <<"ValueError">>>>]
    /\ pc' = [pc EXCEPT ![i] = "returned"]
    /\ UNCHANGED <<apiKey, call, client, net, trips, walk, res, reply, sessions>>

\* mutant: the scope is left without closing the Session
NotClosed(s) == s

\* close_async() on the Session the invocation holds
Closed(s) == [s EXCEPT !.open = FALSE, !.closes = @ + 1]

Release(i) ==
    /\ pc[i] = "closing"
    /\ sessions' = [sessions EXCEPT ![client[i]] = Closed(@)]
    /\ pc' = [pc EXCEPT ![i] = "left"]
    /\ UNCHANGED <<apiKey, call, client, net, trips, walk, res, outcome, reply>>

\* one request of invocation i through Session s
Get(ss, s, i) ==
    [ss EXCEPT ![s] = [@ EXCEPT !.late = @ \/ ~ss[s].open,
                                !.foreign = @ \/ ss[s].owner # i]]

\* mutant: the request is started and the invocation goes on without
\* waiting for its response
SendWithoutWaiting(i, request) ==
    /\ net' = [net EXCEPT ![i] = request]
    /\ trips' = [trips EXCEPT ![i] = @ + 1]
    /\ sessions' = Get(sessions, client[i], i)
    /\ pc' = pc

\* await client.get_async(...): the request is issued and the invocation is
\* suspended until the response arrives
Send(i, request) ==
    /\ net' = [net EXCEPT ![i] = request]
    /\ trips' = [trips EXCEPT ![i] = @ + 1]
    /\ sessions' = Get(sessions, client[i], i)
    /\ pc' = [pc EXCEPT ![i] = "awaiting"]

(***************************************************************************)
(* Object Fetcher (utils.fetch_object, spec section 4.1): one GET; a 404   *)
(* fails with NotFound, any other non-success status with UpstreamError,   *)
(* success returns the sanitized decoded body.                             *)
(***************************************************************************)
ObjectRequest(c) ==
    [kind |-> "object", path |-> <<Collection(c.tool), EntityId(c)>>,
     params |-> (IF Len(EmbeddedRelationships(c.tool)) = 0 THEN << >>
                 ELSE << <<"relationships",
                           Join(EmbeddedRelationships(c.tool), ",")>> >>)
                \o ObjectParams(c.tool),
     cursor |-> 0]

FetchObjectResult(c, status, body) ==
    IF status = 200 THEN <<"ok", Sanitize(body)>>
    ELSE IF status = 404
         THEN <<"raise", <<"NotFound", Collection(c.tool), EntityId(c)>>>>
         ELSE <<"raise", <<"UpstreamError", status, body>>>>

SendObject(i) ==
    /\ pc[i] = "scope"
    /\ call[i].tool \in ObjectTools
    /\ Send(i, ObjectRequest(call[i]))
    /\ UNCHANGED <<apiKey, call, client, walk, res, outcome, reply>>

RecvObject(i) ==
    /\ pc[i] = "awaiting"
    /\ net[i].kind = "object"
    /\ \E status \in Statuses \cup FailureStatuses :
         \E body \in (IF status = 200 THEN Bodies ELSE {ErrorBody}) :
            /\ reply' = [reply EXCEPT ![i] = <<status, body>>]
            /\ res' = [res EXCEPT ![i] = FetchObjectResult(call[i], status, body)]
    /\ net' = [net EXCEPT ![i] = NoRequest]
    /\ pc' = [pc EXCEPT ![i] = "closing"]
    /\ UNCHANGED <<apiKey, call, client, trips, walk, outcome, sessions>>

(***************************************************************************)
(* Relationship Paginator and Search Consumer                              *)
(* (utils.fetch_object_relationships, utils.consume_vt_iterator, spec      *)
(* sections 4.2 and 4.3): pages are requested one after another while the  *)
(* walk has a cursor and holds fewer than limit items; the result is cut   *)
(* to limit items.  The test precedes every request, the first included,   *)
(* so a limit of 0 requests no page.                                       *)
(***************************************************************************)
\* mutant: the adapter hands the layer a limit that is one too large
WalkLimitOffByOne(c) == c.limit + 1

\* limit=limit: the adapters hand their limit argument to the layer as it is
WalkLimit(c) == c.limit

PageRequest(c, cursor) ==
    [kind |-> "page",
     path |-> IF c.tool \in SearchTools THEN <<Collection(c.tool)>>
              ELSE <<Collection(c.tool), EntityId(c), c.rel>>,
     params |-> CASE c.tool = "search" ->
                       << <<"query", c.arg>>, <<"order", "relevance-">> >>
                  [] c.tool = "get_whois" -> << <<"query", c.arg>> >>
                  [] OTHER ->
                       << <<"descriptors_only",
                            IF c.desc THEN "true" ELSE "false">> >>,
     cursor |-> cursor]

WantsPage(w, limit) == w.state = "HasCursor" /\ Len(w.acc) < limit

\* a page arrived: its items are sanitized and appended in the order received
Accumulate(w, page, more, pageNo) ==
    [state |-> IF more THEN "HasCursor" ELSE "Exhausted",
     cursor |-> IF more THEN pageNo ELSE 0,
     acc |-> w.acc \o [k \in 1..Len(page) |-> Sanitize(page[k])],
     fetched |-> w.fetched + Len(page)]

Truncate(acc, limit) ==
    SubSeq(acc, 1, IF Len(acc) < limit THEN Len(acc) ELSE limit)

\* the note the layer attaches to a result that a later-page failure ended
Diagnostic == <<"diagnostic", Str(<<"terminated", "early">>)>>

\* what the layer returns: fetch_object_relationships a map keyed by the
\* relationship name, consume_vt_iterator the list of objects; a walk that a
\* later-page failure ended has the diagnostic attached to that result
WalkResult(c, w, limit) ==
    LET items == List(Truncate(w.acc, limit))
        note == IF w.state = "Failed" THEN <<Diagnostic>> ELSE << >>
    IN  IF c.tool \in SearchTools THEN items \o note
        ELSE Dict(<< <<c.rel, items>> >> \o note)

SendPage(i) ==
    /\ pc[i] = "scope"
    /\ call[i].tool \in WalkTools
    /\ WantsPage(walk[i], WalkLimit(call[i]))
    /\ Send(i, PageRequest(call[i], walk[i].cursor))
    /\ UNCHANGED <<apiKey, call, client, walk, res, outcome, reply>>

RecvPage(i) ==
    /\ pc[i] = "awaiting"
    /\ net[i].kind = "page"
    /\ \E n \in 0..MaxPageLen, more \in BOOLEAN :
          /\ trips[i] >= MaxPages => ~more
          /\ LET page == RawPage(call[i].tool, call[i].desc, walk[i].fetched, n)
             IN  /\ walk' = [walk EXCEPT ![i] = Accumulate(@, page, more, trips[i])]
                 /\ reply' = [reply EXCEPT ![i] = <<200, List(page)>>]
    /\ net' = [net EXCEPT ![i] = NoRequest]
    /\ pc' = [pc EXCEPT ![i] = "scope"]
    /\ UNCHANGED <<apiKey, call, client, trips, res, outcome, sessions>>

\* the fetch of a page fails: the first page fails the operation, a later
\* page ends the walk with what was accumulated
FailPage(i) ==
    /\ pc[i] = "awaiting"
    /\ net[i].kind = "page"
    /\ \E status \in FailureStatuses :
          /\ reply' = [reply EXCEPT ![i] = <<status, ErrorBody>>]
          /\ IF trips[i] = 1
             THEN /\ res' = [res EXCEPT ![i] =
                        <<"raise", <<"UpstreamError", status, ErrorBody>>>>]
                  /\ pc' = [pc EXCEPT ![i] = "closing"]
                  /\ walk' = walk
             ELSE /\ walk' = [walk EXCEPT ![i].state = "Failed"]
                  /\ pc' = [pc EXCEPT ![i] = "scope"]
                  /\ res' = res
    /\ net' = [net EXCEPT ![i] = NoRequest]
    /\ UNCHANGED <<apiKey, call, client, trips, outcome, sessions>>

WalkReturn(i) ==
    /\ pc[i] = "scope"
    /\ call[i].tool \in WalkTools
    /\ ~WantsPage(walk[i], WalkLimit(call[i]))
    /\ res' = [res EXCEPT ![i] =
           <<"ok", WalkResult(call[i], walk[i], WalkLimit(call[i]))>>]
    /\ pc' = [pc EXCEPT ![i] = "closing"]
    /\ UNCHANGED <<apiKey, call, client, net, trips, walk, outcome, reply, sessions>>

(***************************************************************************)
(* get_file_behavior_summary: one GET through the Session, the body        *)
(* decoded inside the scope, its "data" entry read outside it.             *)
(***************************************************************************)
SummaryRequest(c) ==
    [kind |-> "summary", path |-> <<Collection(c.tool), c.arg, "behaviour_summary">>,
     params |-> << >>, cursor |-> 0]

SendSummary(i) ==
    /\ pc[i] = "scope"
    /\ call[i].tool \in SummaryTools
    /\ Send(i, SummaryRequest(call[i]))
    /\ UNCHANGED <<apiKey, call, client, walk, res, outcome, reply>>

\* get_async raises when the transport fails; any HTTP answer is decoded
RecvSummary(i) ==
    /\ pc[i] = "awaiting"
    /\ net[i].kind = "summary"
    /\ \E status \in Statuses \cup FailureStatuses :
         \E body \in (IF status = 200 THEN {Dict(<< <<"data", b>> >>) : b \in Bodies}
                      ELSE {ErrorBody}) :
            /\ reply' = [reply EXCEPT ![i] = <<status, body>>]
            /\ res' = [res EXCEPT ![i] =
                   IF status = 0
                   THEN <<"raise", <<"UpstreamError", status, body>>>>
                   ELSE <<"ok", body>>]
    /\ net' = [net EXCEPT ![i] = NoRequest]
    /\ pc' = [pc EXCEPT ![i] = "closing"]
    /\ UNCHANGED <<apiKey, call, client, trips, walk, outcome, sessions>>

(***************************************************************************)
(* analyse_file: the file is opened and uploaded, the analysis is polled   *)
(* until it completes, and the result is built inside the scope.           *)
(***************************************************************************)
AnalysisObject ==
    Object(<< <<"type", Str(<<"analysis">>)>>, <<"id", Scalar(1)>>,
              <<"attributes", Dict(<< <<"status", Str(<<"completed">>)>> >>)>> >>)

OpenFails(i) ==
    /\ pc[i] = "scope"
    /\ call[i].tool \in AnalyseTools
    /\ res' = [res EXCEPT ![i] = <<"raise", <<"OSError", call[i].arg>>>>]
    /\ pc' = [pc EXCEPT ![i] = "closing"]
    /\ UNCHANGED <<apiKey, call, client, net, trips, walk, outcome, reply, sessions>>

SendUpload(i) ==
    /\ pc[i] = "scope"
    /\ call[i].tool \in AnalyseTools
    /\ Send(i, [kind |-> "upload", path |-> <<Collection(call[i].tool)>>,
                params |-> << >>, cursor |-> 0])
    /\ UNCHANGED <<apiKey, call, client, walk, res, outcome, reply>>

RecvUpload(i) ==
    /\ pc[i] = "awaiting"
    /\ net[i].kind = "upload"
    /\ \E status \in {200} \cup FailureStatuses :
          /\ reply' = [reply EXCEPT ![i] = <<status, ErrorBody>>]
          /\ IF status = 200
             THEN pc' = [pc EXCEPT ![i] = "analysing"] /\ res' = res
             ELSE /\ pc' = [pc EXCEPT ![i] = "closing"]
                  /\ res' = [res EXCEPT ![i] =
                         <<"raise", <<"UpstreamError", status, ErrorBody>>>>]
    /\ net' = [net EXCEPT ![i] = NoRequest]
    /\ UNCHANGED <<apiKey, call, client, trips, walk, outcome, sessions>>

SendPoll(i) ==
    /\ pc[i] = "analysing"
    /\ Send(i, [kind |-> "poll", path |-> <<"analyses">>, params |-> << >>,
                cursor |-> 0])
    /\ UNCHANGED <<apiKey, call, client, walk, res, outcome, reply>>

RecvPoll(i) ==
    /\ pc[i] = "awaiting"
    /\ net[i].kind = "poll"
    /\ \E answer \in {"completed", "queued", "failed"} :
          /\ trips[i] > MaxPolls => answer # "queued"
          /\ reply' = [reply EXCEPT ![i] = <<answer>>]
          /\ CASE answer = "completed" ->
                    /\ res' = [res EXCEPT ![i] =
                           <<"ok", Sanitize(ToDict(AnalysisObject))>>]
                    /\ pc' = [pc EXCEPT ![i] = "closing"]
               [] answer = "queued" ->
                    /\ res' = res
                    /\ pc' = [pc EXCEPT ![i] = "analysing"]
               [] answer = "failed" ->
                    /\ res' = [res EXCEPT ![i] =
                           <<"raise", <<"UpstreamError", 0, ErrorBody>>>>]
                    /\ pc' = [pc EXCEPT ![i] = "closing"]
    /\ net' = [net EXCEPT ![i] = NoRequest]
    /\ UNCHANGED <<apiKey, call, client, trips, walk, outcome, sessions>>

(***************************************************************************)
(* What each adapter does with the layer's result once the Session scope   *)
(* is left.                                                                *)
(***************************************************************************)
\* mutant: the adapter returns one entry of the report, as the summary
\* adapter does, instead of the report
ReturnObjectEntry(r) ==
    IF r[1] = "map" THEN Sanitize(DictGet(r, "id", None)) ELSE Sanitize(r)

\* return utils.sanitize_response(res)
ReturnObject(r) == Sanitize(r)

\* mutant: the adapter reads the layer's map under the wrong key
ReturnRelatedWrongKey(c, r) == Sanitize(DictGet(r, "data", List(<< >>)))

\* mutant: the adapter returns the layer's map as it is, not one entry of it
ReturnRelatedWhole(c, r) == Sanitize(r)

\* return utils.sanitize_response(res.get(relationship_name, []))
ReturnRelated(c, r) == Sanitize(DictGet(r, c.rel, List(<< >>)))

\* mutant: the adapter builds its list from the last object to the first
ReturnSearchReversed(r) ==
    Sanitize(List([k \in 1..Len(r[2]) |-> ToDict(r[2][Len(r[2]) + 1 - k])]))

\* return utils.sanitize_response([o.to_dict() for o in res])
ReturnSearch(r) == Sanitize(List([k \in 1..Len(r[2]) |-> ToDict(r[2][k])]))

\* return utils.sanitize_response(res["data"])
ReturnSummary(r) ==
    IF \E k \in 1..Len(r[2]) : r[2][k][1] = "data"
    THEN <<"return", Sanitize(DictGet(r, "data", None))>>
    ELSE <<"raise", <<"KeyError", "data">>>>

\* mutant: the adapter catches what the layer raises and returns no items
SwallowingOutcome(c, r) ==
    IF r[1] = "raise" THEN <<"return", List(<< >>)>>
    ELSE CASE c.tool \in ObjectTools -> <<"return", ReturnObject(r[2])>>
           [] c.tool \in RelationshipTools -> <<"return", ReturnRelated(c, r[2])>>
           [] c.tool \in SearchTools -> <<"return", ReturnSearch(r[2])>>
           [] c.tool \in SummaryTools -> ReturnSummary(r[2])
           [] c.tool \in AnalyseTools -> <<"return", r[2]>>

\* an exception raised inside the scope leaves the tool after the Session
\* is closed; no adapter catches it
ToolOutcome(c, r) ==
    IF r[1] = "raise" THEN r
    ELSE CASE c.tool \in ObjectTools -> <<"return", ReturnObject(r[2])>>
           [] c.tool \in RelationshipTools -> <<"return", ReturnRelated(c, r[2])>>
           [] c.tool \in SearchTools -> <<"return", ReturnSearch(r[2])>>
           [] c.tool \in SummaryTools -> ReturnSummary(r[2])
           [] c.tool \in AnalyseTools -> <<"return", r[2]>>

\* mutant: the adapter reads from the client once more after the scope is
\* left, before it builds its result
FinishReadingLate(i) ==
    /\ pc[i] = "left"
    /\ outcome' = [outcome EXCEPT ![i] = ToolOutcome(call[i], res[i])]
    /\ pc' = [pc EXCEPT ![i] = "returned"]
    /\ trips' = [trips EXCEPT ![i] = @ + 1]
    /\ sessions' = Get(sessions, client[i], i)
    /\ UNCHANGED <<apiKey, call, client, net, walk, res, reply>>

\* the return statement after the async with block: no await, no request
Finish(i) ==
    /\ pc[i] = "left"
    /\ outcome' = [outcome EXCEPT ![i] = ToolOutcome(call[i], res[i])]
    /\ pc' = [pc EXCEPT ![i] = "returned"]
    /\ UNCHANGED <<apiKey, call, client, net, trips, walk, res, reply, sessions>>

\* the caller has the result; nothing of the invocation is kept
Forget(i) ==
    /\ pc[i] = "returned"
    /\ pc' = [pc EXCEPT ![i] = "idle"]
    /\ call' = [call EXCEPT ![i] = NoCall]
    /\ client' = [client EXCEPT ![i] = 0]
    /\ trips' = [trips EXCEPT ![i] = 0]
    /\ walk' = [walk EXCEPT ![i] = NoWalk]
    /\ res' = [res EXCEPT ![i] = None]
    /\ outcome' = [outcome EXCEPT ![i] = None]
    /\ reply' = [reply EXCEPT ![i] = None]
    /\ UNCHANGED <<apiKey, net, sessions>>

(***************************************************************************)
(* Specification: one invocation after another, in slot 1.                 *)
(***************************************************************************)
Step(i) ==
    \/ Invoke(i)
    \/ Reject(i)
    \/ Acquire(i)
    \/ AcquireFails(i)
    \/ SendObject(i)
    \/ RecvObject(i)
    \/ SendPage(i)
    \/ RecvPage(i)
    \/ FailPage(i)
    \/ WalkReturn(i)
    \/ SendSummary(i)
    \/ RecvSummary(i)
    \/ OpenFails(i)
    \/ SendUpload(i)
    \/ RecvUpload(i)
    \/ SendPoll(i)
    \/ RecvPoll(i)
    \/ Release(i)
    \/ Finish(i)
    \/ Forget(i)

Next == \E i \in {1} : Step(i)

Spec == Init /\ [][Next]_vars

(***************************************************************************)
(* Specification: two invocations in flight at once.  The event loop runs   *)
(* one invocation until it suspends on a network await, then any other, so  *)
(* the steps of the two interleave in every order.  Slot 1 serves a report, *)
(* a summary or an analysis, slot 2 a walk, each slot one invocation.       *)
(***************************************************************************)
ConcurrentCalls(i) ==
    IF i = 1
    THEN {c \in Calls : /\ c.tool \in {"get_file_report"} \cup SummaryTools
                                          \cup AnalyseTools
                        /\ c.arg = "h1"}
    ELSE {c \in Calls : /\ c.tool = "get_entities_related_to_a_file"
                        /\ c.rel \in {"contacted_domains",
                                      "not_a_real_relationship"}
                        /\ c.desc
                        /\ c.limit = 2}

InvokeConcurrently(i) ==
    /\ pc[i] = "idle"
    /\ \E c \in ConcurrentCalls(i) : call' = [call EXCEPT ![i] = c]
    /\ pc' = [pc EXCEPT ![i] = "called"]
    /\ UNCHANGED <<apiKey, client, net, trips, walk, res, outcome, reply, sessions>>

ConcurrentStep(i) ==
    \/ InvokeConcurrently(i)
    \/ Reject(i)
    \/ Acquire(i)
    \/ AcquireFails(i)
    \/ SendObject(i)
    \/ RecvObject(i)
    \/ SendPage(i)
    \/ RecvPage(i)
    \/ FailPage(i)
    \/ WalkReturn(i)
    \/ SendSummary(i)
    \/ RecvSummary(i)
    \/ OpenFails(i)
    \/ SendUpload(i)
    \/ RecvUpload(i)
    \/ SendPoll(i)
    \/ RecvPoll(i)
    \/ Release(i)
    \/ Finish(i)

NextConcurrent == \E i \in Slots : ConcurrentStep(i)

SpecConcurrent == Init /\ [][NextConcurrent]_vars

(***************************************************************************)
(* Properties.                                                             *)
(***************************************************************************)
Returned(i) == pc[i] = "returned"

\* a walk that got past validation and ended by returning a value
WalkReturned(i) ==
    /\ Returned(i)
    /\ call[i].tool \in WalkTools
    /\ client[i] # 0
    /\ outcome[i][1] = "return"

\* the items of the list a walk adapter returned
ReturnedItems(i) == outcome[i][2][2]

\* the items of the sequence the access layer handed to a walk adapter
LayerItems(i) ==
    IF call[i].tool \in SearchTools THEN res[i][2][2]
    ELSE DictGet(res[i][2], call[i].rel, List(<< >>))[2]

\* what the caller receives for item n of the endpoint's edge list
Delivered(c, n) ==
    LET raw == RawItem(c.tool, c.desc, n)
    IN  Sanitize(IF c.tool \in SearchTools THEN ToDict(raw) ELSE raw)

\* C1: a walk returns at most limit items, and when no fetch failed it
\* returns exactly limit items unless the upstream was exhausted holding
\* fewer than limit items, all of which are then returned; the layer's own
\* result obeys the same bound.
C1_LimitRespected ==
    \A i \in Slots :
        WalkReturned(i) =>
            /\ Len(ReturnedItems(i)) <= call[i].limit
            /\ Len(LayerItems(i)) <= call[i].limit
            /\ walk[i].state # "Failed" =>
                 \/ Len(ReturnedItems(i)) = call[i].limit
                 \/ /\ walk[i].state = "Exhausted"
                    /\ walk[i].fetched < call[i].limit
                    /\ Len(ReturnedItems(i)) = walk[i].fetched

\* C1 witness: a walk over more items than the limit returned exactly limit
C1_Witness ==
    \E i \in Slots :
        /\ WalkReturned(i)
        /\ call[i].limit = 2
        /\ trips[i] = 2
        /\ walk[i].fetched = 3
        /\ walk[i].state = "HasCursor"
        /\ Len(ReturnedItems(i)) = 2

\* C2: an invocation of a relationship adapter with a name outside the
\* adapter's allow-list starts no network round trip, holds no Session, and
\* ends by returning an error value; it never raises.
C2_UnknownRelationshipIsLocal ==
    \A i \in Slots :
        ( /\ pc[i] # "idle"
          /\ call[i].tool \in RelationshipTools
          /\ call[i].rel \notin Range(AllowList(call[i].tool)) ) =>
            /\ pc[i] \in {"called", "returned"}
            /\ trips[i] = 0
            /\ client[i] = 0
            /\ Returned(i) =>
                 /\ outcome[i][1] = "return"
                 /\ outcome[i][2][1] = "map"
                 /\ outcome[i][2][2][1][1] = "error"

\* C2 witness: the spec's scenario, with and without an API key configured
C2_Witness ==
    \E i \in Slots :
        /\ Returned(i)
        /\ call[i].tool = "get_entities_related_to_a_url"
        /\ call[i].rel = "not_a_real_relationship"
        /\ outcome[i][1] = "return"
        /\ trips[i] = 0
        /\ ~apiKey

\* the invocations that are inside their Session scope
InScope(i) == pc[i] \in {"scope", "awaiting", "analysing", "closing"}

\* C3: when an invocation has ended, the Session it acquired is closed and
\* was closed exactly once; a Session is open only while the invocation
\* holding it is inside its scope, and no Session is ever closed twice.
C3_SessionReleased ==
    /\ \A i \in Slots :
          (pc[i] \in {"left", "returned"} /\ client[i] # 0) =>
              /\ ~sessions[client[i]].open
              /\ sessions[client[i]].closes = 1
    /\ \A s \in 1..Len(sessions) :
          /\ sessions[s].closes <= 1
          /\ sessions[s].open =>
                \E i \in Slots : client[i] = s /\ InScope(i)

\* C3 witness: fetch_object answered 404, the tool raised NotFound, and the
\* Session is closed
C3_Witness ==
    \E i \in Slots :
        /\ Returned(i)
        /\ call[i].tool = "get_file_report"
        /\ outcome[i] = <<"raise", <<"NotFound", "files", call[i].arg>>>>
        /\ client[i] # 0
        /\ ~sessions[client[i]].open
        /\ sessions[client[i]].closes = 1

\* the last answer invocation i received was a failed fetch
LastFetchFailed(i) == reply[i] # None /\ reply[i][1] \in FailureStatuses

\* C4: a walk whose first page fetch failed ends by raising UpstreamError
\* and returns no items; a walk in which a later page fetch failed ends by
\* returning every item accumulated before the failure.
C4_PartialOnLaterFailure ==
    \A i \in Slots :
        ( /\ Returned(i)
          /\ call[i].tool \in WalkTools
          /\ client[i] # 0
          /\ LastFetchFailed(i) ) =>
            IF trips[i] = 1
            THEN /\ outcome[i] =
                       <<"raise", <<"UpstreamError", reply[i][1], reply[i][2]>>>>
                 /\ walk[i].acc = << >>
            ELSE /\ walk[i].state = "Failed"
                 /\ outcome[i][1] = "return"
                 /\ ReturnedItems(i) =
                       [k \in 1..walk[i].fetched |-> Delivered(call[i], k)]

\* C4 witness: the second page fetch failed after a first page of three
\* items under a limit of five; the three items are returned
C4_Witness ==
    \E i \in Slots :
        /\ Returned(i)
        /\ call[i].tool = "get_entities_related_to_a_file"
        /\ call[i].limit = 5
        /\ trips[i] = 2
        /\ LastFetchFailed(i)
        /\ walk[i].fetched = 3
        /\ outcome[i][1] = "return"
        /\ Len(ReturnedItems(i)) = 3

\* the number of items on the last page invocation i received
LastPageLen(i) ==
    IF reply[i] # None /\ reply[i][1] = 200 THEN Len(reply[i][2][2]) ELSE 0

\* C5: no page is requested once the accumulated items reach the limit: the
\* pages before the last one requested together hold fewer than limit
\* items, and a walk in which no fetch failed stops only when the pages
\* fetched hold at least limit items or the upstream is exhausted.
C5_NoRequestPastLimit ==
    \A i \in Slots :
        (call[i].tool \in WalkTools /\ client[i] # 0) =>
            /\ call[i].limit = 0 => trips[i] = 0
            /\ trips[i] > 0 =>
                 walk[i].fetched - LastPageLen(i) < call[i].limit
            /\ pc[i] = "awaiting" =>
                 Len(walk[i].acc) < call[i].limit /\ walk[i].state = "HasCursor"
            /\ (pc[i] \in {"closing", "left", "returned"} /\ ~LastFetchFailed(i)) =>
                 walk[i].fetched >= call[i].limit \/ walk[i].state = "Exhausted"

\* C5 witness: pages of three and four items under a limit of five: two
\* requests, five items, and the cursor of the second page is not followed
C5_Witness ==
    \E i \in Slots :
        /\ WalkReturned(i)
        /\ call[i].tool = "get_entities_related_to_a_url"
        /\ call[i].rel = "contacted_domains"
        /\ call[i].limit = 5
        /\ trips[i] = 2
        /\ walk[i].fetched = 7
        /\ LastPageLen(i) = 4
        /\ walk[i].state = "HasCursor"
        /\ Len(ReturnedItems(i)) = 5

\* C6: the items a walk returns are the first items of the concatenation of
\* the pages fetched, each once and in the server's order.
C6_ServerOrderKept ==
    \A i \in Slots :
        WalkReturned(i) =>
            /\ Len(ReturnedItems(i)) <= walk[i].fetched
            /\ ReturnedItems(i) =
                  [k \in 1..Len(ReturnedItems(i)) |-> Delivered(call[i], k)]
            /\ walk[i].acc =
                  [k \in 1..walk[i].fetched |->
                      Sanitize(RawItem(call[i].tool, call[i].desc, k))]

\* C6 witness: a search returned three items taken from two pages
C6_Witness ==
    \E i \in Slots :
        /\ WalkReturned(i)
        /\ call[i].tool = "search"
        /\ trips[i] = 2
        /\ LastPageLen(i) = 2
        /\ walk[i].fetched = 4
        /\ Len(ReturnedItems(i)) = 3
        /\ ReturnedItems(i)[1] # ReturnedItems(i)[3]

\* C7: fetchObject makes exactly one round trip and its result follows the
\* status of the answer: 404 raises NotFound with the entity type and id,
\* any other failure raises UpstreamError with the status and the body, and
\* 200 returns the sanitized body, which is what the tool's caller gets.
C7_ObjectOutcomeByStatus ==
    \A i \in Slots :
        ( /\ call[i].tool \in ObjectTools
          /\ client[i] # 0
          /\ pc[i] \in {"closing", "left", "returned"} ) =>
            /\ trips[i] = 1
            /\ LET status == reply[i][1]
                   body == reply[i][2]
                   expected ==
                       CASE status = 200 -> <<"ok", Sanitize(body)>>
                         [] status = 404 ->
                              <<"raise", <<"NotFound", Collection(call[i].tool),
                                           EntityId(call[i])>>>>
                         [] OTHER -> <<"raise", <<"UpstreamError", status, body>>>>
               IN  /\ res[i] = expected
                   /\ Returned(i) =>
                        outcome[i] = IF status = 200
                                     THEN <<"return", Sanitize(body)>>
                                     ELSE expected

\* C7 witness: a URL report answered 500 ended in UpstreamError after one
\* round trip
C7_Witness ==
    \E i \in Slots :
        /\ Returned(i)
        /\ call[i].tool = "get_url_report"
        /\ call[i].arg = "u2"
        /\ trips[i] = 1
        /\ outcome[i] = <<"raise", <<"UpstreamError", 500, ErrorBody>>>>

\* the list a joined string was built from: the pieces between the commas
Unjoin(tokens) == [k \in 1..((Len(tokens) + 1) \div 2) |-> tokens[2 * k - 1]]

\* C8: a relationship adapter accepts a name if and only if the name is
\* equal to an element of its allow-list; a name that is not is answered
\* with an error that names it and lists the whole allow-list in order.
C8_ExactMembership ==
    \A i \in Slots :
        (call[i].tool \in RelationshipTools /\ pc[i] \notin {"idle", "called"}) =>
            LET allowed == AllowList(call[i].tool)
                name == call[i].rel
            IN  IF name \in Range(allowed)
                THEN client[i] # 0 \/ outcome[i] = <<"raise", <<"ValueError">>>>
                ELSE /\ Returned(i)
                     /\ client[i] = 0
                     /\ outcome[i][1] = "return"
                     /\ LET text == DictGet(outcome[i][2], "error", None)[2]
                            tail == SubSeq(text, 5, Len(text))
                        IN  /\ text[2] = name
                            /\ Len(tail) = 2 * Len(allowed) - 1
                            /\ \A k \in 1..Len(tail) : k % 2 = 0 => tail[k] = ","
                            /\ Unjoin(tail) = allowed

\* C8 witness: "Votes" is refused by the file adapter, whose list holds "votes"
C8_Witness ==
    \E i \in Slots :
        /\ Returned(i)
        /\ call[i].tool = "get_entities_related_to_a_file"
        /\ call[i].rel = "Votes"
        /\ "votes" \in Range(AllowList(call[i].tool))
        /\ outcome[i] = <<"return", UnknownRelationship("Votes", FILE_RELATIONSHIPS)>>

\* C9: sanitizing twice is sanitizing once: for the body of every answer
\* received, and for what the object and relationship adapters return after
\* sanitizing the layer's already sanitized result.
C9_SanitizeIdempotent ==
    \A i \in Slots :
        /\ (reply[i] # None /\ Len(reply[i]) = 2) =>
              Sanitize(Sanitize(reply[i][2])) = Sanitize(reply[i][2])
        /\ (Returned(i) /\ res[i][1] = "ok" /\ call[i].tool \in ObjectTools) =>
              outcome[i] = <<"return", res[i][2]>>
        /\ (Returned(i) /\ res[i][1] = "ok" /\ call[i].tool \in RelationshipTools) =>
              outcome[i] = <<"return", DictGet(res[i][2], call[i].rel, None)>>

\* C9 witness: a file report whose body had a disallowed field at two levels
C9_Witness ==
    \E i \in Slots :
        /\ Returned(i)
        /\ call[i].tool = "get_file_report"
        /\ reply[i] = <<200, Dict(<< <<"id", Dict(<< <<"last_analysis_results", Scalar(1)>> >>)>>,
                                    <<"last_analysis_results", Scalar(1)>> >>)>>
        /\ outcome[i] = <<"return", Dict(<< <<"id", Dict(<< >>)>> >>)>>

\* C10: get_entities_related_to_a_file with the relationship name
\* "behaviours" is not answered with the unknown-relationship error: the
\* name passes validation and the relationship is fetched.
C10_BehavioursIsFetched ==
    \A i \in Slots :
        ( /\ Returned(i)
          /\ call[i].tool = "get_entities_related_to_a_file"
          /\ call[i].rel = "behaviours" ) =>
            /\ outcome[i] # <<"return", UnknownRelationship("behaviours", FILE_RELATIONSHIPS)>>
            /\ apiKey => trips[i] > 0

\* a value that has the layer's diagnostic attached
Carried(v) ==
    CASE v[1] = "seq" -> Len(v) > 2
      [] v[1] = "map" -> \E k \in 1..Len(v[2]) : v[2][k][1] = Diagnostic[1]
      [] OTHER -> FALSE

\* what the caller of invocation i would have received had the upstream
\* been exhausted after the pages that invocation i fetched
ExhaustedOutcome(i) ==
    ToolOutcome(call[i],
        <<"ok", WalkResult(call[i], [walk[i] EXCEPT !.state = "Exhausted"],
                           WalkLimit(call[i]))>>)

C12_SequentialWalk ==
    /\ [](\A i \in Slots :
            (call[i].tool \in WalkTools /\ client[i] # 0) =>
                /\ net[i] # NoRequest <=> pc[i] = "awaiting"
                /\ pc[i] = "awaiting" =>
                      /\ net[i].kind = "page"
                      /\ walk[i].state = "HasCursor"
                      /\ net[i].cursor = walk[i].cursor
                      /\ net[i].cursor = trips[i] - 1
                /\ walk[i].state = "Exhausted" => net[i] = NoRequest)
    /\ [][\A i \in Slots :
            (call[i].tool \in WalkTools /\ trips'[i] = trips[i] + 1) =>
                /\ net[i] = NoRequest
                /\ walk[i].state = "HasCursor"
                /\ walk[i].cursor = trips[i]
                /\ trips[i] > 0 => reply[i][1] = 200
                /\ net'[i] = PageRequest(call[i], walk[i].cursor)]_vars

\* C12 witness: the third page is requested with the cursor the second
\* page's response carried
C12_Witness ==
    \E i \in Slots :
        /\ call[i].tool \in WalkTools
        /\ pc[i] = "awaiting"
        /\ trips[i] = 3
        /\ reply[i][1] = 200
        /\ walk[i].cursor = 2
        /\ net[i] = PageRequest(call[i], 2)

\* C13: with several invocations in flight, each holds a Session of its
\* own: no two invocations hold the same Session, no Session served a
\* request of an invocation other than the one that acquired it, and the
\* Session of an invocation that is inside its scope is open and was never
\* closed, whatever the other invocations released meanwhile.
C13_OwnSession ==
    /\ \A i, j \in Slots :
          (i # j /\ client[i] # 0 /\ client[j] # 0) => client[i] # client[j]
    /\ \A i \in Slots :
          client[i] # 0 =>
              /\ sessions[client[i]].owner = i
              /\ InScope(i) =>
                    /\ sessions[client[i]].open
                    /\ sessions[client[i]].closes = 0
    /\ \A s \in 1..Len(sessions) : ~sessions[s].foreign

\* C13 witness: the report invocation has left its scope and closed its
\* Session while the walk, which acquired its Session later, is suspended
\* on its second page with its Session open
C13_Witness ==
    /\ pc[1] = "left"
    /\ client[1] = 1
    /\ ~sessions[1].open
    /\ pc[2] = "awaiting"
    /\ client[2] = 2
    /\ trips[2] = 2
    /\ sessions[2].open
    /\ sessions[2].closes = 0

\* C14: every request of an invocation is issued inside the scope of the
\* Session that invocation acquired: a request is outstanding only inside
\* the scope and on the invocation's own open Session, no Session ever
\* served a request after it was closed, a request is issued only from
\* inside the scope on a Session that was never closed, and the steps that
\* follow the release issue none.
C14_RequestsInsideScope ==
    /\ [](/\ \A s \in 1..Len(sessions) : ~sessions[s].late
          /\ \A i \in Slots :
                net[i] # NoRequest =>
                    /\ InScope(i)
                    /\ client[i] # 0
                    /\ sessions[client[i]].owner = i
                    /\ sessions[client[i]].open)
    /\ [][\A i \in Slots :
            /\ trips'[i] > trips[i] =>
                  /\ InScope(i) /\ pc[i] # "closing"
                  /\ client[i] # 0
                  /\ sessions[client[i]].open
                  /\ sessions[client[i]].closes = 0
                  /\ net'[i] # NoRequest
            /\ pc[i] \in {"closing", "left", "returned"} =>
                  /\ net'[i] = NoRequest
                  /\ trips'[i] <= trips[i]]_vars

\* C14 witness: a search that made three page requests has returned; its
\* Session is closed and served no request after the close
C14_Witness ==
    \E i \in Slots :
        /\ WalkReturned(i)
        /\ call[i].tool = "search"
        /\ trips[i] = 3
        /\ net[i] = NoRequest
        /\ ~sessions[client[i]].open
        /\ sessions[client[i]].closes = 1
        /\ ~sessions[client[i]].late

====
